---- MODULE Spec2Model ----
(***************************************************************************)
(* Model of msackman/argot: the Step abstraction, eager step sequences     *)
(* (Steps.Test / Steps.Go / Steps.run), the assertion steps of stdlib.go   *)
(* and the HttpCall state machine.  The repository carries three revisions *)
(* of the sequence runner (src/unnamed/part_001, src/unnamed/part_002 and  *)
(* src/argot.go); the variable "variant" says which of them is running.    *)
(* Sequence indices are 1-based here: source index i is i+1 in the model.  *)
(***************************************************************************)
EXTENDS Integers, Sequences, FiniteSets, TLC

VARIABLES
  variant,    \* which revision of the runner / HttpCall is executing
  ss,         \* the receiver of Steps.Test: the input sequence
  t,          \* the *testing.T argument: "nil" or "T"
  pc,         \* position of the Test call
  idx,        \* number of loop iterations completed successfully
  results,    \* the named result "results"
  err,        \* the named result "err"
  mem,        \* the variable the steps' closures share (var a string)
  log,        \* history: every Go() entry/return, factory call and t.Fatalf
  fatal,      \* the messages t.Fatalf was called with
  hc,         \* the HttpCall: Request, Response, ResponseBody
  streams,    \* the Response.Body streams the client has handed out
  doCalls,    \* number of hc.Client.Do invocations
  last,       \* the operation executed last on hc, what it returned, and
              \* the first failure a capability reported while it ran
  args,       \* the argument list errs of a call of AnyError
  anyErr,     \* what that call returned, "none" before it has returned
  ch,         \* the channel of a StepsChan: buffer, capacity, closed, and
              \* every step sent on it so far
  prod        \* the goroutine that feeds the channel: what it has yet to
              \* send, and whether it closes the channel afterwards

stepVars == <<ss, t, pc, idx, results, err, mem, log, fatal>>
httpVars == <<hc, streams, doCalls, last>>
callVars == <<args, anyErr>>
chanVars == <<ch, prod>>
vars == <<variant, ss, t, pc, idx, results, err, mem, log, fatal,
          hc, streams, doCalls, last, args, anyErr, ch, prod>>

----------------------------------------------------------------------------
(* Bounds *)
MaxLen == 3      \* longest top-level sequence
MaxNest == 2     \* longest sequence nested inside a sequence
MaxCalls == 2    \* Client.Do invocations explored
MaxArgs == 3     \* longest argument list of AnyError
MaxProd == 3     \* most steps the feeding goroutine sends
MaxCap == 1      \* largest channel capacity

Nil == "nil"
NoWrite == "-"
Errs == {"e1", "e2"}

----------------------------------------------------------------------------
(* Steps: values of the Step interface *)

\* a plain closure: returns err, and assigns write to the shared variable
StepFunc(e, w) == [kind |-> "func", err |-> e, write |-> w]
\* stdlib.go ExpectDiffEqual(actual, expected); actual is captured when built
ExpectDiffEqual(actual, expected) ==
  [kind |-> "diff", actual |-> actual, expected |-> expected]
\* stdlib.go ExpectError(step)
ExpectError(step) == [kind |-> "expectError", inner |-> step]
\* NewStepProducer(func() Step { return ExpectDiffEqual(a, expected) })
NewStepProducer(expected) == [kind |-> "producer", expected |-> expected]
\* a Steps value used as a Step
NestedSteps(members) == [kind |-> "steps", members |-> members]
\* a closure that issues its successor: ch <- next; return nil
SendStep(next) == [kind |-> "send", next |-> next]
\* a closure that ends the run: close(ch); return nil
CloseStep == [kind |-> "close"]

RECURSIVE String(_)
\* fmt.Sprint of a step: the name of a NamedStep, else a structural form
String(step) ==
  CASE step.kind = "func" -> <<"StepFunc">>
    [] step.kind = "diff" -> <<"ExpectDiffEqual">>
    [] step.kind = "expectError" -> <<"ExpectError">> \o String(step.inner)
    [] step.kind = "producer" -> <<"StepProducer">>
    [] step.kind = "steps" -> <<"Steps">>
    [] step.kind \in {"send", "close"} -> <<"StepFunc">>

Sprint(list) == [i \in 1..Len(list) |-> String(list[i])]

\* one entry of the history: Go() entered ("go") or returned ("ret"), the
\* factory of a producer was called ("factory"), t.Fatalf was called ("fatal")
Event(ev, kind, path, e) == [ev |-> ev, kind |-> kind, at |-> path, err |-> e]

\* the factory of the producer at path was called and read m from the variable
FactoryEvent(path, m) ==
  [ev |-> "factory", kind |-> "producer", at |-> path, err |-> Nil, saw |-> m]

RECURSIVE Go(_, _, _)
RECURSIVE run(_, _, _, _)

\* StepFunc.Go: call the closure
StepFunc_Go(step, m, path) ==
  [err |-> step.err,
   mem |-> IF step.write = NoWrite THEN m ELSE step.write,
   log |-> <<Event("go", step.kind, path, Nil),
             Event("ret", step.kind, path, step.err)>>]

\* the closure of ExpectDiffEqual
ExpectDiffEqual_Go(step, m, path) ==
  LET e == IF step.actual # step.expected THEN "diff" ELSE Nil
  IN [err |-> e, mem |-> m,
      log |-> <<Event("go", step.kind, path, Nil),
                Event("ret", step.kind, path, e)>>]

\* ExpectError that passes the result of the wrapped step through
ExpectError_Go_noInvert(step, m, path) ==
  LET r == Go(step.inner, m, path \o <<1>>)
  IN [err |-> r.err, mem |-> r.mem,
      log |-> <<Event("go", step.kind, path, Nil)>> \o r.log
              \o <<Event("ret", step.kind, path, r.err)>>]

\* the closure of ExpectError
ExpectError_Go(step, m, path) ==
  LET r == Go(step.inner, m, path \o <<1>>)
      e == IF r.err = Nil THEN "noerror" ELSE Nil
  IN [err |-> e, mem |-> r.mem,
      log |-> <<Event("go", step.kind, path, Nil)>> \o r.log
              \o <<Event("ret", step.kind, path, e)>>]

\* a producer that calls its factory a second time to execute the step
StepProducer_Go_twice(step, m, path) ==
  LET built == ExpectDiffEqual(m, step.expected)
      r == Go(built, m, path \o <<1>>)
  IN [err |-> r.err, mem |-> r.mem,
      log |-> <<Event("go", step.kind, path, Nil), FactoryEvent(path, m),
                FactoryEvent(path, m)>>
              \o r.log \o <<Event("ret", step.kind, path, r.err)>>]

\* StepProducer.Go: invoke the factory, then execute the Step it returned
StepProducer_Go(step, m, path) ==
  LET built == ExpectDiffEqual(m, step.expected)
      r == Go(built, m, path \o <<1>>)
  IN [err |-> r.err, mem |-> r.mem,
      log |-> <<Event("go", step.kind, path, Nil), FactoryEvent(path, m)>>
              \o r.log \o <<Event("ret", step.kind, path, r.err)>>]

\* Steps.Go that drops the error of run
Steps_Go_swallow(step, m, path) ==
  LET r == run(step.members, 1, m, path)
  IN [err |-> Nil, mem |-> r.mem,
      log |-> <<Event("go", step.kind, path, Nil)>> \o r.log
              \o <<Event("ret", step.kind, path, Nil)>>]

\* Steps.Go: _, err := ss.run(); return err
Steps_Go(step, m, path) ==
  LET r == run(step.members, 1, m, path)
  IN [err |-> r.err, mem |-> r.mem,
      log |-> <<Event("go", step.kind, path, Nil)>> \o r.log
              \o <<Event("ret", step.kind, path, r.err)>>]

\* dynamic dispatch of Step.Go()
Go(step, m, path) ==
  CASE step.kind = "func" -> StepFunc_Go(step, m, path)
    [] step.kind = "diff" -> ExpectDiffEqual_Go(step, m, path)
    [] step.kind = "expectError" -> ExpectError_Go(step, m, path)
    [] step.kind = "producer" -> StepProducer_Go(step, m, path)
    [] step.kind = "steps" -> Steps_Go(step, m, path)

\* the slice run returns when the step at (1-based) position i failed
run_failed(s, i) == SubSeq(s, 1, i)

\* Steps.run from position i on: the for loop
run(s, i, m, path) ==
  IF i > Len(s) THEN [results |-> s, err |-> Nil, mem |-> m, log |-> <<>>]
  ELSE LET r == Go(s[i], m, path \o <<i>>)
       IN IF r.err # Nil
          THEN [results |-> run_failed(s, i), err |-> r.err,
                mem |-> r.mem, log |-> r.log]
          ELSE LET rest == run(s, i + 1, r.mem, path)
               IN [results |-> rest.results, err |-> rest.err,
                   mem |-> rest.mem, log |-> r.log \o rest.log]

----------------------------------------------------------------------------
(* The inputs explored *)

Leaves ==
  {StepFunc(Nil, "foo"), StepFunc("e1", NoWrite), NewStepProducer("foo")}

Wrapped ==
  {ExpectError(StepFunc("e1", NoWrite)), ExpectError(StepFunc(Nil, "foo"))}

\* a nested sequence of n members of which member f fails (none if f = 0)
Shape(n, f) ==
  [i \in 1..n |-> IF i = f THEN StepFunc("e2", NoWrite) ELSE StepFunc(Nil, "foo")]

Nested == {NestedSteps(Shape(n, f)) : n \in 0..MaxNest, f \in 0..MaxNest}

SeqsUpTo(S, n) == UNION {[1..k -> S] : k \in 0..n}

\* Steps has a Go() error method, and so is a Step, in part_001 only
StepsOf(v) == IF v = "part_001" THEN Leaves \cup Wrapped \cup Nested
              ELSE Leaves \cup Wrapped

\* the nil *http.Request and the nil *http.Response
NoRequest == [id |-> 0, Header |-> {}]
NoResponse == [req |-> 0, StatusCode |-> 0, Header |-> {}, Body |-> 0]

NewHttpCall ==
  [Request |-> NoRequest, Response |-> NoResponse, ResponseBody |-> Nil]

HttpInit ==
  /\ hc = NewHttpCall
  /\ streams = <<>>
  /\ doCalls = 0
  /\ last = [op |-> "NewHttpCall", key |-> Nil, err |-> Nil, cap |-> Nil]

\* no call of AnyError is under way
CallInit ==
  /\ args = <<>>
  /\ anyErr = "none"

\* no StepsChan exists
ChanInit ==
  /\ ch = [buf |-> <<>>, capacity |-> 0, closed |-> FALSE, sent |-> <<>>]
  /\ prod = [todo |-> <<>>, closes |-> FALSE]

Init ==
  /\ variant \in {"part_001", "part_002", "argot.go"}
  /\ ss \in SeqsUpTo(StepsOf(variant), MaxLen)
  /\ t \in {Nil, "T"}
  /\ pc = "ready"
  /\ idx = 0
  /\ results = <<>>
  /\ err = Nil
  /\ mem = ""
  /\ log = <<>>
  /\ fatal = <<>>
  /\ HttpInit
  /\ CallInit
  /\ ChanInit

----------------------------------------------------------------------------
(* Reporting *)

Header(h) == <<h>>
ErrorText(e) == <<"Error:", e>>

\* part_001 formatFatalSteps
formatFatalSteps(res, e) ==
  LET l == Len(res)
      achieved == IF l > 1
                  THEN <<Header("Achieved Steps:")>> \o Sprint(SubSeq(res, 1, l - 1))
                  ELSE <<>>
      failed == IF l > 0
                THEN <<Header("Failed Step:"), String(res[l])>>
                ELSE <<>>
  IN achieved \o failed \o <<ErrorText(e)>>

\* part_002 formatFatalSteps
formatFatalSteps_002(res, e) ==
  LET achieved == IF Len(res) > 0
                  THEN <<Header("Achieved Steps:")>> \o Sprint(res)
                  ELSE <<>>
  IN achieved \o <<ErrorText(e)>>

\* argot.go: the format string of t.Fatalf in Steps.Go
formatFatal_argot(res, e) ==
  <<Header("Achieved Steps:")>> \o Sprint(res) \o <<ErrorText(e)>>

\* a deferred function that calls t.Fatalf without looking at err
Deferred_always(msg) ==
  /\ pc = "defer"
  /\ IF t # Nil
     THEN /\ fatal' = Append(fatal, msg)
          /\ log' = Append(log, Event("fatal", "T", <<>>, err))
          /\ pc' = "fatal"
     ELSE /\ pc' = "returned"
          /\ UNCHANGED <<fatal, log>>
  /\ UNCHANGED <<variant, ss, t, idx, results, err, mem>>
  /\ UNCHANGED <<httpVars, callVars, chanVars>>

\* the deferred function of Test/Go, then the return to the caller
Deferred(msg) ==
  /\ pc = "defer"
  /\ IF t # Nil /\ err # Nil
     THEN /\ fatal' = Append(fatal, msg)
          /\ log' = Append(log, Event("fatal", "T", <<>>, err))
          /\ pc' = "fatal"
     ELSE /\ pc' = "returned"
          /\ UNCHANGED <<fatal, log>>
  /\ UNCHANGED <<variant, ss, t, idx, results, err, mem>>
  /\ UNCHANGED <<httpVars, callVars, chanVars>>

----------------------------------------------------------------------------
(* part_001: Steps.Test calling Steps.run *)

Steps_Test ==
  /\ variant = "part_001" /\ pc = "ready"
  /\ pc' = "loop"
  /\ UNCHANGED <<variant, ss, t, idx, results, err, mem, log, fatal>>
  /\ UNCHANGED <<httpVars, callVars, chanVars>>

\* a loop that goes on to the next step after a failure
Steps_run_step_noStop ==
  /\ variant = "part_001" /\ pc = "loop" /\ idx < Len(ss)
  /\ LET r == Go(ss[idx + 1], mem, <<idx + 1>>)
     IN /\ mem' = r.mem
        /\ log' = log \o r.log
        /\ err' = r.err
        /\ idx' = idx + 1
        /\ UNCHANGED <<results, pc>>
  /\ UNCHANGED <<variant, ss, t, fatal>>
  /\ UNCHANGED <<httpVars, callVars, chanVars>>

\* one iteration of the for loop of Steps.run
Steps_run_step ==
  /\ variant = "part_001" /\ pc = "loop" /\ idx < Len(ss)
  /\ LET r == Go(ss[idx + 1], mem, <<idx + 1>>)
     IN /\ mem' = r.mem
        /\ log' = log \o r.log
        /\ IF r.err # Nil
           THEN /\ results' = run_failed(ss, idx + 1)
                /\ err' = r.err
                /\ pc' = "defer"
                /\ UNCHANGED idx
           ELSE /\ idx' = idx + 1
                /\ UNCHANGED <<results, err, pc>>
  /\ UNCHANGED <<variant, ss, t, fatal>>
  /\ UNCHANGED <<httpVars, callVars, chanVars>>

\* the loop of Steps.run is exhausted: return ss, nil
Steps_run_end ==
  /\ variant = "part_001" /\ pc = "loop" /\ idx = Len(ss)
  /\ results' = ss
  /\ err' = Nil
  /\ pc' = "defer"
  /\ UNCHANGED <<variant, ss, t, idx, mem, log, fatal>>
  /\ UNCHANGED <<httpVars, callVars, chanVars>>

Steps_Test_return ==
  /\ variant = "part_001"
  /\ Deferred(formatFatalSteps(results, err))

----------------------------------------------------------------------------
(* part_002: Steps.Test with its own loop *)

Steps_Test_002 ==
  /\ variant = "part_002" /\ pc = "ready"
  /\ pc' = "loop"
  /\ UNCHANGED <<variant, ss, t, idx, results, err, mem, log, fatal>>
  /\ UNCHANGED <<httpVars, callVars, chanVars>>

\* the slice part_002 returns when the step at (1-based) position i failed
Test_failed_002(s, i) == SubSeq(s, 1, i - 1)

Steps_Test_step_002 ==
  /\ variant = "part_002" /\ pc = "loop" /\ idx < Len(ss)
  /\ LET r == Go(ss[idx + 1], mem, <<idx + 1>>)
     IN /\ mem' = r.mem
        /\ log' = log \o r.log
        /\ IF r.err # Nil
           THEN /\ results' = Test_failed_002(ss, idx + 1)
                /\ err' = r.err
                /\ pc' = "defer"
                /\ UNCHANGED idx
           ELSE /\ idx' = idx + 1
                /\ UNCHANGED <<results, err, pc>>
  /\ UNCHANGED <<variant, ss, t, fatal>>
  /\ UNCHANGED <<httpVars, callVars, chanVars>>

Steps_Test_end_002 ==
  /\ variant = "part_002" /\ pc = "loop" /\ idx = Len(ss)
  /\ results' = ss
  /\ err' = Nil
  /\ pc' = "defer"
  /\ UNCHANGED <<variant, ss, t, idx, mem, log, fatal>>
  /\ UNCHANGED <<httpVars, callVars, chanVars>>

Steps_Test_return_002 ==
  /\ variant = "part_002"
  /\ Deferred(formatFatalSteps_002(results, err))

----------------------------------------------------------------------------
(* argot.go: Steps.Go(t) *)

\* results = make([]Step, 0, len(ss))
Steps_Go_argot ==
  /\ variant = "argot.go" /\ pc = "ready"
  /\ results' = <<>>
  /\ pc' = "loop"
  /\ UNCHANGED <<variant, ss, t, idx, err, mem, log, fatal>>
  /\ UNCHANGED <<httpVars, callVars, chanVars>>

Steps_Go_step_argot ==
  /\ variant = "argot.go" /\ pc = "loop" /\ idx < Len(ss)
  /\ LET step == ss[idx + 1]
         r == Go(step, mem, <<idx + 1>>)
     IN /\ results' = Append(results, step)
        /\ mem' = r.mem
        /\ log' = log \o r.log
        /\ err' = r.err
        /\ IF r.err # Nil
           THEN pc' = "defer" /\ UNCHANGED idx
           ELSE idx' = idx + 1 /\ UNCHANGED pc
  /\ UNCHANGED <<variant, ss, t, fatal>>
  /\ UNCHANGED <<httpVars, callVars, chanVars>>

Steps_Go_end_argot ==
  /\ variant = "argot.go" /\ pc = "loop" /\ idx = Len(ss)
  /\ err' = Nil
  /\ pc' = "defer"
  /\ UNCHANGED <<variant, ss, t, idx, results, mem, log, fatal>>
  /\ UNCHANGED <<httpVars, callVars, chanVars>>

Steps_Go_return_argot ==
  /\ variant = "argot.go"
  /\ Deferred(formatFatal_argot(results, err))

Next ==
  \/ Steps_Test \/ Steps_run_step \/ Steps_run_end \/ Steps_Test_return
  \/ Steps_Test_002 \/ Steps_Test_step_002 \/ Steps_Test_end_002
  \/ Steps_Test_return_002
  \/ Steps_Go_argot \/ Steps_Go_step_argot \/ Steps_Go_end_argot
  \/ Steps_Go_return_argot

Spec == Init /\ [][Next]_vars

----------------------------------------------------------------------------
(* HttpCall.  The operations are functions of the state                     *)
(* s = [hc, streams, doCalls, cap] and of what the environment does:       *)
(* env.do is what Client.Do returns, env.read whether reading the body     *)
(* stream succeeds, env.build whether http.NewRequest accepts its          *)
(* arguments, and env.check what an external validator answers.            *)

St == [hc |-> hc, streams |-> streams, doCalls |-> doCalls, cap |-> Nil]

\* a capability the operation called (Client.Do, io.Copy, http.NewRequest,
\* the validator) returned the error e: s.cap keeps the first such error
CapabilityFailed(s, e) == IF e = Nil \/ s.cap # Nil THEN s ELSE [s EXCEPT !.cap = e]

\* net/http canonical form of a header name
CanonicalHeaderKey(key) ==
  CASE key \in {"AsDf", "asDF", "Asdf"} -> "Asdf"
    [] key \in {"FoO", "Foo"} -> "Foo"
    [] OTHER -> key

\* what Client.Do returned: the status, the header names the server set and
\* the body: http.NoBody for a response without body, else a stream that is
\* empty or carries data
Response(status, names, kind) ==
  [fails |-> FALSE, status |-> status, names |-> names, kind |-> kind]

Responses ==
  {Response(403, {"AsDf"}, "data"), Response(200, {}, "empty"),
   Response(200, {}, "NoBody")}

\* Client.Do returns an error
TransportError == [fails |-> TRUE, status |-> 0, names |-> {}, kind |-> "NoBody"]

DoOutcomes == {TransportError} \cup Responses
ReadOutcomes == {"ok", "err"}
CheckOutcomes == {"err", "invalid", "valid"}

Env(do, read, build, check) ==
  [do |-> do, read |-> read, build |-> build, check |-> check]

\* Client.Do is called only with a request and without a response, and a
\* body stream is read only when no body is cached: elsewhere the outcome of
\* the environment is never looked at and one value stands for all
DoChoices(s) ==
  IF s.hc.Request # NoRequest /\ s.hc.Response = NoResponse
  THEN DoOutcomes ELSE {TransportError}
ReadChoices(s) ==
  IF s.hc.Request = NoRequest /\ s.hc.Response = NoResponse
  THEN {"ok"}
  ELSE IF s.hc.ResponseBody # Nil THEN {"ok"} ELSE ReadOutcomes

EnvsRead(s) == {Env(TransportError, rd, TRUE, "valid") : rd \in ReadChoices(s)}
EnvsBuild(s) ==
  {Env(TransportError, rd, b, "valid") : rd \in ReadChoices(s), b \in BOOLEAN}
EnvsDo(s) == {Env(do, "ok", TRUE, "valid") : do \in DoChoices(s)}
EnvsBody(s) ==
  {Env(do, rd, TRUE, "valid") : do \in DoChoices(s), rd \in ReadChoices(s)}
EnvsCheck(s) ==
  {Env(do, rd, TRUE, c) :
     do \in DoChoices(s), rd \in ReadChoices(s), c \in CheckOutcomes}

\* one more read or close of a stream: 0, 1, and 2 for "more than once"
Count(n) == IF n = 0 THEN 1 ELSE 2

\* a body stream as the client hands it out
NewStream(kind) ==
  [kind |-> kind, closed |-> FALSE, reads |-> 0, closes |-> 0]

\* io.Copy from a body stream: the stream afterwards, the error, the bytes of
\* the destination buffer (Nil when nothing was ever written to it)
Copy(stream, outcome) ==
  LET st == [stream EXCEPT !.reads = Count(@)]
  IN CASE stream.kind = "NoBody" -> [stream |-> st, err |-> Nil, bytes |-> Nil]
       [] stream.closed -> [stream |-> st, err |-> "closed", bytes |-> Nil]
       [] outcome = "err" -> [stream |-> st, err |-> "readerr", bytes |-> Nil]
       [] OTHER -> [stream |-> st, err |-> Nil,
                    bytes |-> IF stream.kind = "empty" THEN "" ELSE "data"]

\* Response.Body.Close()
Close(stream) == [stream EXCEPT !.closed = TRUE, !.closes = Count(@)]

AssertNoRequest(s) == IF s.hc.Request = NoRequest THEN Nil ELSE "Request already set"
AssertRequest(s) == IF s.hc.Request = NoRequest THEN "No Request set" ELSE Nil
AssertNoResponse(s) ==
  IF s.hc.Response = NoResponse THEN Nil ELSE "Response already set"

\* an AnyError whose loop keeps going and returns the last non-nil error
AnyError_last(errs) ==
  LET set == {i \in 1..Len(errs) : errs[i] # Nil}
  IN IF set = {} THEN Nil
     ELSE errs[CHOOSE i \in set : \A j \in set : j <= i]

RECURSIVE AnyError(_)
AnyError(errs) ==
  IF errs = <<>> THEN Nil
  ELSE IF Head(errs) # Nil THEN Head(errs)
  ELSE AnyError(Tail(errs))

\* an EnsureResponse that does not look at hc.Response before it calls
\* the client
EnsureResponse_always(s, env) ==
  IF s.hc.Request = NoRequest THEN [st |-> s, err |-> "no request"]
  ELSE IF env.do.fails
       THEN [st |-> CapabilityFailed([s EXCEPT !.doCalls = @ + 1], "transport"),
             err |-> "transport"]
  ELSE LET response ==
             [req |-> s.hc.Request.id,
              StatusCode |-> env.do.status,
              Header |-> {CanonicalHeaderKey(k) : k \in env.do.names},
              Body |-> Len(s.streams) + 1]
       IN [st |-> [s EXCEPT !.doCalls = @ + 1,
                            !.streams = Append(@, NewStream(env.do.kind)),
                            !.hc.Response = response],
           err |-> Nil]

\* an EnsureResponse that calls the client without testing hc.Request
EnsureResponse_noRequestTest(s, env) ==
  IF s.hc.Response # NoResponse THEN [st |-> s, err |-> Nil]
  ELSE IF env.do.fails
       THEN [st |-> CapabilityFailed([s EXCEPT !.doCalls = @ + 1], "transport"),
             err |-> "transport"]
  ELSE LET response ==
             [req |-> s.hc.Request.id,
              StatusCode |-> env.do.status,
              Header |-> {CanonicalHeaderKey(k) : k \in env.do.names},
              Body |-> Len(s.streams) + 1]
       IN [st |-> [s EXCEPT !.doCalls = @ + 1,
                            !.streams = Append(@, NewStream(env.do.kind)),
                            !.hc.Response = response],
           err |-> Nil]

\* an EnsureResponse that assigns hc.Response before it tests the error of
\* Client.Do
EnsureResponse_storeFirst(s, env) ==
  IF s.hc.Response # NoResponse THEN [st |-> s, err |-> Nil]
  ELSE IF s.hc.Request = NoRequest THEN [st |-> s, err |-> "no request"]
  ELSE LET response ==
             [req |-> s.hc.Request.id,
              StatusCode |-> env.do.status,
              Header |-> {CanonicalHeaderKey(k) : k \in env.do.names},
              Body |-> Len(s.streams) + 1]
           stored == [s EXCEPT !.doCalls = @ + 1,
                               !.streams = Append(@, NewStream(env.do.kind)),
                               !.hc.Response = response]
       IN IF env.do.fails
          THEN [st |-> CapabilityFailed(stored, "transport"), err |-> "transport"]
          ELSE [st |-> stored, err |-> Nil]

EnsureResponse(s, env) ==
  IF s.hc.Response # NoResponse THEN [st |-> s, err |-> Nil]
  ELSE IF s.hc.Request = NoRequest THEN [st |-> s, err |-> "no request"]
  ELSE IF env.do.fails
       THEN [st |-> CapabilityFailed([s EXCEPT !.doCalls = @ + 1], "transport"),
             err |-> "transport"]
  ELSE LET response ==
             [req |-> s.hc.Request.id,
              StatusCode |-> env.do.status,
              Header |-> {CanonicalHeaderKey(k) : k \in env.do.names},
              Body |-> Len(s.streams) + 1]
       IN [st |-> [s EXCEPT !.doCalls = @ + 1,
                            !.streams = Append(@, NewStream(env.do.kind)),
                            !.hc.Response = response],
           err |-> Nil]

\* a ReceiveBody that closes the stream after a successful read only
ReceiveBody_closeOnSuccess(s, env) ==
  LET r == EnsureResponse(s, env)
  IN IF r.err # Nil THEN r
     ELSE IF r.st.hc.ResponseBody # Nil THEN [st |-> r.st, err |-> Nil]
     ELSE LET b == r.st.hc.Response.Body
              c == Copy(r.st.streams[b], env.read)
              read == CapabilityFailed([r.st EXCEPT !.streams[b] = c.stream], c.err)
          IN IF c.err # Nil THEN [st |-> read, err |-> c.err]
             ELSE [st |-> [read EXCEPT !.streams[b] = Close(@),
                                       !.hc.ResponseBody = c.bytes],
                   err |-> Nil]

ReceiveBody(s, env) ==
  LET r == EnsureResponse(s, env)
  IN IF r.err # Nil THEN r
     ELSE IF r.st.hc.ResponseBody # Nil THEN [st |-> r.st, err |-> Nil]
     ELSE LET b == r.st.hc.Response.Body
              c == Copy(r.st.streams[b], env.read)
              closed == CapabilityFailed(
                          [r.st EXCEPT !.streams[b] = Close(c.stream)], c.err)
          IN IF c.err # Nil THEN [st |-> closed, err |-> c.err]
             ELSE [st |-> [closed EXCEPT !.hc.ResponseBody = c.bytes],
                   err |-> Nil]

\* io.Copy(ioutil.Discard, hc.Response.Body); hc.Response.Body.Close()
Drain(s, env) ==
  LET b == s.hc.Response.Body
      c == Copy(s.streams[b], env.read)
  IN CapabilityFailed([s EXCEPT !.streams[b] = Close(c.stream)], c.err)

\* a Reset that forgets the response without draining its body
Reset_noDrain(s, env) ==
  [st |-> [s EXCEPT !.hc = NewHttpCall], err |-> Nil]

\* part_001 Reset
Reset(s, env) ==
  LET drained == IF s.hc.Response # NoResponse /\ s.hc.ResponseBody = Nil
                 THEN Drain(s, env) ELSE s
  IN [st |-> [drained EXCEPT !.hc = NewHttpCall], err |-> Nil]

\* argot.go Reset: hc.Response = nil is inside the if
Reset_argot(s, env) ==
  LET unread == s.hc.Response # NoResponse /\ s.hc.ResponseBody = Nil
      drained == IF unread THEN Drain(s, env) ELSE s
  IN [st |-> [drained EXCEPT !.hc.Request = NoRequest,
                             !.hc.Response = IF unread THEN NoResponse ELSE @,
                             !.hc.ResponseBody = Nil],
      err |-> Nil]

\* hc.Reset() of the revision that is running
CallReset(s, env) ==
  IF variant = "argot.go" THEN Reset_argot(s, env) ELSE Reset(s, env)

\* http.NewRequest: a request without headers.  Its id tells the requests
\* apart that are separated by a call of Client.Do, so that a response can
\* be traced to the request it answers
NewHttpRequest(s) == [id |-> s.doCalls + 1, Header |-> {}]

\* the closure of NewRequest
NewRequest(s, env) ==
  LET r == CallReset(s, env)
  IN IF r.err # Nil THEN r
     ELSE IF ~env.build
          THEN [st |-> CapabilityFailed(r.st, "bad request"), err |-> "bad request"]
     ELSE [st |-> [r.st EXCEPT !.hc.Request = NewHttpRequest(r.st)], err |-> Nil]

\* a RequestHeader that only tests that there is a request
RequestHeader_noResponseTest(s, key) ==
  LET e == AnyError(<<AssertRequest(s)>>)
  IN IF e # Nil THEN [st |-> s, err |-> e]
     ELSE [st |-> [s EXCEPT !.hc.Request.Header = @ \cup {CanonicalHeaderKey(key)}],
           err |-> Nil]

\* the closure of RequestHeader
RequestHeader(s, key) ==
  LET e == AnyError(<<AssertRequest(s), AssertNoResponse(s)>>)
  IN IF e # Nil THEN [st |-> s, err |-> e]
     ELSE [st |-> [s EXCEPT !.hc.Request.Header = @ \cup {CanonicalHeaderKey(key)}],
           err |-> Nil]

\* the tail of an assertion step: r is what EnsureResponse or ReceiveBody
\* returned, ok whether the comparison of the step succeeds
Compared(r, ok, mismatch) ==
  IF r.err # Nil THEN r
  ELSE IF ~ok THEN [st |-> r.st, err |-> mismatch]
  ELSE [st |-> r.st, err |-> Nil]

\* string(hc.ResponseBody)
BodyString(body) == IF body = Nil THEN "" ELSE body

\* strings.Contains over the strings of the model
Contains(str, sub) == sub = "" \/ sub = str

\* the step's closure has returned r: the new state of the HttpCall
\* (for the steps that look a header up by its name, key is that name)
ReturnedKey(op, key, r) ==
  /\ hc' = r.st.hc
  /\ streams' = r.st.streams
  /\ doCalls' = r.st.doCalls
  /\ last' = [op |-> op, key |-> key, err |-> r.err, cap |-> r.st.cap]
  /\ UNCHANGED variant
  /\ UNCHANGED <<stepVars, callVars, chanVars>>

Returned(op, r) == ReturnedKey(op, Nil, r)

\* the bounds on the exploration
Within(s) == s.doCalls <= MaxCalls

HC_Reset ==
  \E env \in EnvsRead(St) :
    LET r == CallReset(St, env)
    IN Within(r.st) /\ Returned("Reset", r)

HC_NewRequest ==
  \E env \in EnvsBuild(St) :
    LET r == NewRequest(St, env)
    IN Within(r.st) /\ Returned("NewRequest", r)

HC_RequestHeader ==
  \E key \in {"AsDf", "FoO"} :
    LET r == RequestHeader(St, key)
    IN Within(r.st) /\ Returned("RequestHeader", r)

\* the step Call, and a direct call of EnsureResponse
HC_Call ==
  \E env \in EnvsDo(St) :
    LET r == EnsureResponse(St, env)
    IN Within(r.st) /\ Returned("Call", r)

HC_ReceiveBody ==
  \E env \in EnvsBody(St) :
    LET r == ReceiveBody(St, env)
    IN Within(r.st) /\ Returned("ReceiveBody", r)

HC_ResponseStatusEquals ==
  \E env \in EnvsDo(St) : \E status \in {200, 403} :
    LET e == EnsureResponse(St, env)
        r == Compared(e, e.st.hc.Response.StatusCode = status, "status")
    IN Within(r.st) /\ Returned("ResponseStatusEquals", r)

HC_ResponseHeaderExists ==
  /\ variant = "part_001"
  /\ \E env \in EnvsDo(St) : \E key \in {"asDF", "Asdf", "FoO"} :
       LET e == EnsureResponse(St, env)
           r == Compared(e, key \in e.st.hc.Response.Header, "header not found")
       IN Within(r.st) /\ ReturnedKey("ResponseHeaderExists", key, r)

HC_ResponseHeaderNotExists ==
  /\ variant = "part_001"
  /\ \E env \in EnvsDo(St) : \E key \in {"asDF", "Asdf", "FoO"} :
       LET e == EnsureResponse(St, env)
           r == Compared(e, key \notin e.st.hc.Response.Header, "header found")
       IN Within(r.st) /\ ReturnedKey("ResponseHeaderNotExists", key, r)

\* Header.Get(key) is "" for a header that is absent; the headers of the
\* model all carry the value "something"
HeaderGet(response, key) ==
  IF CanonicalHeaderKey(key) \in response.Header THEN "something" ELSE ""

HC_ResponseHeaderEquals ==
  \E env \in EnvsDo(St) : \E key \in {"asDF", "FoO"} : \E value \in {"", "something"} :
    LET e == EnsureResponse(St, env)
        r == Compared(e, HeaderGet(e.st.hc.Response, key) = value, "header differs")
    IN Within(r.st) /\ Returned("ResponseHeaderEquals", r)

HC_ResponseHeaderContains ==
  \E env \in EnvsDo(St) : \E key \in {"asDF", "FoO"} : \E value \in {"", "something"} :
    LET e == EnsureResponse(St, env)
        r == Compared(e, Contains(HeaderGet(e.st.hc.Response, key), value), "header lacks")
    IN Within(r.st) /\ Returned("ResponseHeaderContains", r)

HC_ResponseBodyEquals ==
  \E env \in EnvsBody(St) : \E value \in {"", "data"} :
    LET e == ReceiveBody(St, env)
        body == BodyString(e.st.hc.ResponseBody)
        r == Compared(e, body = value, "body differs")
    IN Within(r.st) /\ Returned("ResponseBodyEquals", r)

HC_ResponseBodyContains ==
  \E env \in EnvsBody(St) : \E value \in {"", "data"} :
    LET e == ReceiveBody(St, env)
        body == BodyString(e.st.hc.ResponseBody)
        r == Compared(e, Contains(body, value), "body lacks")
    IN Within(r.st) /\ Returned("ResponseBodyContains", r)

\* the pattern is one that matches exactly the non-empty bodies
HC_ResponseBodyMatches ==
  /\ variant = "part_001"
  /\ \E env \in EnvsBody(St) :
       LET e == ReceiveBody(St, env)
           body == BodyString(e.st.hc.ResponseBody)
           r == Compared(e, body # "", "body does not match")
       IN Within(r.st) /\ Returned("ResponseBodyMatches", r)

\* gojsonschema.Validate fails, or reports the body invalid or valid
HC_ResponseBodyJSONSchema ==
  \E env \in EnvsCheck(St) :
    LET b == ReceiveBody(St, env)
        e == IF b.err = Nil /\ env.check = "err"
             THEN [b EXCEPT !.st = CapabilityFailed(@, "validator")] ELSE b
        r == Compared(e, env.check = "valid",
                      IF env.check = "err" THEN "validator" ELSE "invalid")
    IN Within(r.st) /\ Returned("ResponseBodyJSONSchema", r)

\* json.Unmarshal fails, or pretty.Compare reports a difference or none
HC_ResponseBodyJSONMatchesStruct ==
  /\ variant = "part_001"
  /\ \E env \in EnvsCheck(St) :
       LET b == ReceiveBody(St, env)
           e == IF b.err = Nil /\ env.check = "err"
                THEN [b EXCEPT !.st = CapabilityFailed(@, "unmarshal")] ELSE b
           r == Compared(e, env.check = "valid",
                         IF env.check = "err" THEN "unmarshal" ELSE "differs")
       IN Within(r.st) /\ Returned("ResponseBodyJSONMatchesStruct", r)

InitHttp ==
  /\ variant \in {"part_001", "argot.go"}
  /\ ss = <<>>
  /\ t = Nil
  /\ pc = "ready"
  /\ idx = 0
  /\ results = <<>>
  /\ err = Nil
  /\ mem = ""
  /\ log = <<>>
  /\ fatal = <<>>
  /\ HttpInit
  /\ CallInit
  /\ ChanInit

NextHttp ==
  \/ HC_Reset \/ HC_NewRequest \/ HC_RequestHeader \/ HC_Call
  \/ HC_ReceiveBody \/ HC_ResponseStatusEquals
  \/ HC_ResponseHeaderExists \/ HC_ResponseHeaderNotExists
  \/ HC_ResponseHeaderEquals \/ HC_ResponseHeaderContains
  \/ HC_ResponseBodyEquals \/ HC_ResponseBodyContains
  \/ HC_ResponseBodyMatches \/ HC_ResponseBodyJSONSchema
  \/ HC_ResponseBodyJSONMatchesStruct

SpecHttp == InitHttp /\ [][NextHttp]_vars

----------------------------------------------------------------------------
(* AnyError called on its own: the argument list is any list of errors and  *)
(* nils up to MaxArgs long                                                  *)

InitAnyError ==
  /\ variant \in {"part_001", "argot.go"}
  /\ ss = <<>>
  /\ t = Nil
  /\ pc = "ready"
  /\ idx = 0
  /\ results = <<>>
  /\ err = Nil
  /\ mem = ""
  /\ log = <<>>
  /\ fatal = <<>>
  /\ HttpInit
  /\ ChanInit
  /\ args \in SeqsUpTo({Nil} \cup Errs, MaxArgs)
  /\ anyErr = "none"

AnyError_call ==
  /\ anyErr = "none"
  /\ anyErr' = AnyError(args)
  /\ UNCHANGED <<variant, args>>
  /\ UNCHANGED <<stepVars, httpVars, chanVars>>

NextAnyError == AnyError_call

SpecAnyError == InitAnyError /\ [][NextAnyError]_vars

----------------------------------------------------------------------------
(* StepsChan.Test (part_002) and StepsChan.Go (argot.go): the loop           *)
(* "for step := range sc".  One goroutine feeds the channel; a step may      *)
(* itself send its successor on the channel or close it.  The channel is     *)
(* closed by one party only and nothing is sent after the close: either the  *)
(* feeding goroutine closes it and no step sends, or a close step ends the   *)
(* run and is the successor the last step fed sends.                         *)

ChanLeaves == {StepFunc(Nil, "foo"), StepFunc("e1", NoWrite)}
SendSteps == {SendStep(StepFunc(Nil, "foo")), SendStep(CloseStep)}

Scripts ==
  {[todo |-> todo, closes |-> c] :
     todo \in SeqsUpTo(ChanLeaves \cup SendSteps, MaxProd), c \in BOOLEAN}

WellFormed(script) ==
  /\ script.closes => \A i \in 1..Len(script.todo) : script.todo[i] \in ChanLeaves
  /\ \A i \in 1..Len(script.todo) :
       script.todo[i] = SendStep(CloseStep) => i = Len(script.todo)

\* make(chan Step, capacity)
NewChan(capacity) ==
  [buf |-> <<>>, capacity |-> capacity, closed |-> FALSE, sent |-> <<>>]

InitChan ==
  /\ variant \in {"part_002", "argot.go"}
  /\ ss = <<>>
  /\ t \in {Nil, "T"}
  /\ pc = "ready"
  /\ idx = 0
  /\ results = <<>>
  /\ err = Nil
  /\ mem = ""
  /\ log = <<>>
  /\ fatal = <<>>
  /\ HttpInit
  /\ CallInit
  /\ ch \in {NewChan(c) : c \in 0..MaxCap}
  /\ prod \in {script \in Scripts : WellFormed(script)}

\* ch <- step can proceed into the buffer
Room == ~ch.closed /\ Len(ch.buf) < ch.capacity
\* ch <- step, buffered
Send(step) == [ch EXCEPT !.buf = Append(@, step), !.sent = Append(@, step)]

\* the step the loop is executing
Current == results[Len(results)]

\* the feeding goroutine: sc <- step into the buffer
Producer_send ==
  /\ prod.todo # <<>> /\ Room
  /\ ch' = Send(Head(prod.todo))
  /\ prod' = [prod EXCEPT !.todo = Tail(@)]
  /\ UNCHANGED <<variant, stepVars, httpVars, callVars>>

\* the feeding goroutine: close(sc) after its last send
Producer_close ==
  /\ prod.todo = <<>> /\ prod.closes /\ ~ch.closed
  /\ ch' = [ch EXCEPT !.closed = TRUE]
  /\ prod' = [prod EXCEPT !.closes = FALSE]
  /\ UNCHANGED <<variant, stepVars, httpVars, callVars>>

\* Test / Go entered: the deferred function is registered, results is made
StepsChan_Test ==
  /\ pc = "ready"
  /\ pc' = "loop"
  /\ UNCHANGED <<variant, ss, t, idx, results, err, mem, log, fatal>>
  /\ UNCHANGED <<httpVars, callVars, chanVars>>

\* range receives a buffered step; results = append(results, step)
StepsChan_receive ==
  /\ pc = "loop" /\ ch.buf # <<>>
  /\ results' = Append(results, Head(ch.buf))
  /\ ch' = [ch EXCEPT !.buf = Tail(@)]
  /\ pc' = "step"
  /\ UNCHANGED <<variant, ss, t, idx, err, mem, log, fatal, prod>>
  /\ UNCHANGED <<httpVars, callVars>>

\* range receives on an empty channel from the feeding goroutine that waits
\* in its send: the hand-over of an unbuffered channel
StepsChan_rendezvous ==
  /\ pc = "loop" /\ ch.buf = <<>> /\ ~ch.closed /\ ch.capacity = 0
  /\ prod.todo # <<>>
  /\ results' = Append(results, Head(prod.todo))
  /\ ch' = [ch EXCEPT !.sent = Append(@, Head(prod.todo))]
  /\ prod' = [prod EXCEPT !.todo = Tail(@)]
  /\ pc' = "step"
  /\ UNCHANGED <<variant, ss, t, idx, err, mem, log, fatal>>
  /\ UNCHANGED <<httpVars, callVars>>

\* a loop that goes on to the next step whatever step.Go() returned
StepsChan_step_noStop ==
  /\ pc = "step" /\ Current.kind \notin {"send", "close"}
  /\ LET r == Go(Current, mem, <<Len(results)>>)
     IN /\ mem' = r.mem
        /\ log' = log \o r.log
        /\ err' = r.err
        /\ pc' = "loop"
  /\ UNCHANGED <<variant, ss, t, idx, results, fatal>>
  /\ UNCHANGED <<httpVars, callVars, chanVars>>

\* err = step.Go(); if err != nil { return results, err }
StepsChan_step ==
  /\ pc = "step" /\ Current.kind \notin {"send", "close"}
  /\ LET r == Go(Current, mem, <<Len(results)>>)
     IN /\ mem' = r.mem
        /\ log' = log \o r.log
        /\ err' = r.err
        /\ pc' = IF r.err # Nil THEN "defer" ELSE "loop"
  /\ UNCHANGED <<variant, ss, t, idx, results, fatal>>
  /\ UNCHANGED <<httpVars, callVars, chanVars>>

\* step.Go() of a step that sends its successor: the send proceeds when the
\* buffer has room; the loop, the only receiver, is inside this call
StepsChan_step_send ==
  /\ pc = "step" /\ Current.kind = "send"
  /\ Room
  /\ ch' = Send(Current.next)
  /\ log' = log \o <<Event("go", "send", <<Len(results)>>, Nil),
                      Event("ret", "send", <<Len(results)>>, Nil)>>
  /\ err' = Nil
  /\ pc' = "loop"
  /\ UNCHANGED <<variant, ss, t, idx, results, mem, fatal, prod>>
  /\ UNCHANGED <<httpVars, callVars>>

\* step.Go() of a step that closes the channel
StepsChan_step_close ==
  /\ pc = "step" /\ Current.kind = "close"
  /\ ~ch.closed
  /\ ch' = [ch EXCEPT !.closed = TRUE]
  /\ log' = log \o <<Event("go", "close", <<Len(results)>>, Nil),
                      Event("ret", "close", <<Len(results)>>, Nil)>>
  /\ err' = Nil
  /\ pc' = "loop"
  /\ UNCHANGED <<variant, ss, t, idx, results, mem, fatal, prod>>
  /\ UNCHANGED <<httpVars, callVars>>

\* a range that ends as soon as nothing is waiting in the channel
StepsChan_end_onEmpty ==
  /\ pc = "loop" /\ ch.buf = <<>>
  /\ err' = Nil
  /\ pc' = "defer"
  /\ UNCHANGED <<variant, ss, t, idx, results, mem, log, fatal>>
  /\ UNCHANGED <<httpVars, callVars, chanVars>>

\* range ends: the channel is closed and drained; return results, nil
StepsChan_end ==
  /\ pc = "loop" /\ ch.buf = <<>> /\ ch.closed
  /\ err' = Nil
  /\ pc' = "defer"
  /\ UNCHANGED <<variant, ss, t, idx, results, mem, log, fatal>>
  /\ UNCHANGED <<httpVars, callVars, chanVars>>

\* the deferred function, then the return to the caller
StepsChan_return ==
  Deferred(IF variant = "argot.go" THEN formatFatal_argot(results, err)
           ELSE formatFatalSteps_002(results, err))

\* what the goroutine of Test does, and what the feeding goroutine does
TestSteps ==
  \/ StepsChan_Test \/ StepsChan_receive \/ StepsChan_rendezvous
  \/ StepsChan_step \/ StepsChan_step_send \/ StepsChan_step_close
  \/ StepsChan_end \/ StepsChan_return
ProducerSteps == Producer_send \/ Producer_close

NextChan == TestSteps \/ ProducerSteps

SpecChan == InitChan /\ [][NextChan]_vars

\* both goroutines are scheduled whenever they can run
SpecChanFair == SpecChan /\ WF_vars(TestSteps) /\ WF_vars(ProducerSteps)

----------------------------------------------------------------------------
(* Reading the history *)

Finished == pc \in {"returned", "fatal"}

\* positions of the history where Go() of the step at path p was entered
GoPos(p) == {a \in 1..Len(log) : log[a].ev = "go" /\ log[a].at = p}
\* positions of the history where Go() of the step at path p returned
RetPos(p) == {a \in 1..Len(log) : log[a].ev = "ret" /\ log[a].at = p}

Executed(k) == GoPos(<<k>>) # {}
\* the top-level steps that returned an error
Failing == {k \in 1..Len(ss) : \E a \in RetPos(<<k>>) : log[a].err # Nil}
ErrorOf(k) == log[CHOOSE a \in RetPos(<<k>>) : TRUE].err

Parent(p) == SubSeq(p, 1, Len(p) - 1)

----------------------------------------------------------------------------
\* C1: an eager sequence executes its steps in insertion order, each at most
\* once; step k starts only after steps before k have all returned success;
\* after the first failing step i no later step is executed and the error of
\* the run is the error step i returned.
C1_InOrderStopAtFirstFailure ==
  /\ \A a \in 1..Len(log) :
       (log[a].ev = "go" /\ Len(log[a].at) = 1) => log[a].at[1] \in 1..Len(ss)
  /\ \A k \in 1..Len(ss) :
       /\ Cardinality(GoPos(<<k>>)) <= 1
       /\ \A a \in GoPos(<<k>>) : \A j \in 1..(k - 1) :
            \E b \in RetPos(<<j>>) : b < a /\ log[b].err = Nil
  /\ \A i \in Failing :
       /\ \A k \in (i + 1)..Len(ss) : ~Executed(k)
       /\ pc \in {"defer", "returned", "fatal"} => err = ErrorOf(i)
  /\ (pc \in {"defer", "returned", "fatal"} /\ err # Nil) => Failing # {}

\* a run that failed at a step with successful steps before it and steps
\* after it that were never started
C1_Witness ==
  /\ pc = "returned"
  /\ \E i \in Failing : i >= 2 /\ i < Len(ss) /\ err = ErrorOf(i)

\* C2: the returned list is a prefix of the input no longer than it, and on
\* failure at step i it is the input up to and including step i.
C2_ResultIsInclusivePrefix ==
  Finished =>
    /\ Len(results) <= Len(ss)
    /\ results = SubSeq(ss, 1, Len(results))
    /\ \A i \in Failing :
         /\ results = SubSeq(ss, 1, i)
         /\ results[Len(results)] = ss[i]

\* C3: when every step succeeds (also for the empty sequence) the run returns
\* the whole input and no error, and the harness is not signaled.
C3_AllSucceedReturnsAll ==
  (Finished /\ Failing = {}) =>
    /\ pc = "returned"
    /\ \A k \in 1..Len(ss) : Executed(k)
    /\ results = ss
    /\ err = Nil
    /\ fatal = <<>>

C3_Witness ==
  /\ pc = "returned" /\ t # Nil
  /\ Len(ss) >= 2 /\ Failing = {}
  /\ results = ss

\* the number of top-level steps whose Go() was entered
NumExecuted == Cardinality({k \in 1..Len(ss) : Executed(k)})

\* C4: with a harness, Test signals a fatal failure exactly once iff the run
\* ends with an error, and only after the failing step returned; without a
\* harness it never signals and returns the executed prefix and the error.
C4_HarnessSignaledIffError ==
  /\ Len(fatal) <= 1
  /\ t = Nil => (fatal = <<>> /\ pc # "fatal")
  /\ (Finished /\ t # Nil) => (Len(fatal) = 1 <=> Failing # {})
  /\ fatal # <<>> =>
       /\ log[Len(log)].ev = "fatal"
       /\ \E i \in Failing : \E b \in RetPos(<<i>>) : b < Len(log)
  /\ (Finished /\ t = Nil) =>
       /\ pc = "returned"
       /\ results = SubSeq(ss, 1, NumExecuted)
       /\ \A i \in Failing : err = ErrorOf(i)
       /\ Failing = {} => err = Nil

\* C5: the fatal message for a failure at step i lists as achieved exactly the
\* steps before i in order (no achieved section when there are none), then the
\* failing step as the failed step, then the error text of step i.
C5_FatalMessageSections ==
  \A n \in 1..Len(fatal) : \A i \in Failing :
    fatal[n] =
      (IF i > 1
       THEN <<Header("Achieved Steps:")>> \o Sprint(SubSeq(ss, 1, i - 1))
       ELSE <<>>)
      \o <<Header("Failed Step:"), String(ss[i])>>
      \o <<ErrorText(ErrorOf(i))>>

\* C6: a sequence used as a step returns nil iff every member succeeds, else
\* the error of its first failing member, running no member after it; the
\* outer run then stops at the nested sequence and reports that error.
C6_NestedSequenceIsStep ==
  \A a \in 1..Len(log) :
    (log[a].ev = "ret" /\ log[a].kind = "steps" /\ Len(log[a].at) = 1) =>
      LET p == log[a].at
          members == ss[p[1]].members
          n == Len(members)
          FailM == {j \in 1..n : \E b \in RetPos(p \o <<j>>) : log[b].err # Nil}
      IN /\ log[a].err = Nil <=>
              \A j \in 1..n : \E b \in RetPos(p \o <<j>>) : log[b].err = Nil
         /\ \A j \in FailM :
              /\ \E b \in RetPos(p \o <<j>>) : log[a].err = log[b].err
              /\ \A j2 \in (j + 1)..n : GoPos(p \o <<j2>>) = {}
         /\ \A j \in 1..n : Cardinality(GoPos(p \o <<j>>)) <= 1
         /\ (log[a].err # Nil /\ pc \in {"defer", "returned", "fatal"}) =>
              /\ err = log[a].err
              /\ idx = p[1] - 1
              /\ \A k \in (p[1] + 1)..Len(ss) : ~Executed(k)

\* a nested sequence whose second member failed, inside an outer sequence with
\* a step after it
C6_Witness ==
  /\ pc = "returned" /\ err = "e2"
  /\ \E k \in Failing :
       /\ ss[k].kind = "steps" /\ k < Len(ss)
       /\ \E b \in RetPos(<<k, 2>>) : log[b].err = "e2"

\* C7: the factory of a producer is not invoked before the producer is
\* executed; each execution of the producer's Go() invokes it exactly once
\* and returns the result of executing the step the factory built.
C7_FactoryOncePerGo ==
  /\ pc = "ready" => log = <<>>
  /\ \A a \in 1..Len(log) :
       log[a].ev = "factory" =>
         /\ a > 1
         /\ log[a - 1].ev = "go" /\ log[a - 1].kind = "producer"
         /\ log[a - 1].at = log[a].at
  /\ \A a \in 1..Len(log) :
       (log[a].ev = "go" /\ log[a].kind = "producer") =>
         Cardinality({b \in 1..Len(log) :
                        log[b].ev = "factory" /\ log[b].at = log[a].at}) = 1
  /\ \A a \in 1..Len(log) :
       (log[a].ev = "ret" /\ log[a].kind = "producer") =>
         /\ Cardinality(GoPos(log[a].at \o <<1>>)) = 1
         /\ \E b \in RetPos(log[a].at \o <<1>>) :
              b < a /\ log[b].err = log[a].err

\* one producer of the sequence was executed and another, behind a failing
\* step, was not
C7_Witness ==
  /\ Finished
  /\ \E k1, k2 \in 1..Len(ss) :
       /\ ss[k1].kind = "producer" /\ ss[k2].kind = "producer"
       /\ Executed(k1) /\ ~Executed(k2)
       /\ \E a \in 1..Len(log) : log[a].ev = "factory" /\ log[a].at = <<k1>>

RECURSIVE Written(_, _)
\* the value of the shared variable after a step that ran to success
Written(step, m) ==
  CASE step.kind = "func" -> IF step.write = NoWrite THEN m ELSE step.write
    [] step.kind = "expectError" -> Written(step.inner, m)
    [] step.kind = "steps" ->
         IF step.members = <<>> THEN m
         ELSE Written(NestedSteps(Tail(step.members)),
                      Written(Head(step.members), m))
    [] OTHER -> m

\* the value of the shared variable after the first n top-level steps
WrittenBy(n) == Written(NestedSteps(SubSeq(ss, 1, n)), "")

\* C8: the factory of a producer at position k is invoked only after every
\* earlier step returned success and sees what they wrote; if an earlier step
\* fails the factory is never invoked.
C8_FactorySeesEarlierSteps ==
  /\ \A a \in 1..Len(log) :
       log[a].ev = "factory" =>
         LET k == log[a].at[1]
         IN /\ \A j \in 1..(k - 1) :
                 \E b \in RetPos(<<j>>) : b < a /\ log[b].err = Nil
            /\ log[a].saw = WrittenBy(k - 1)
  /\ \A i \in Failing : \A a \in 1..Len(log) :
       log[a].ev = "factory" => log[a].at[1] <= i

\* a producer behind a step that assigned "foo" built a step that saw "foo"
\* and succeeded
C8_Witness ==
  \E a \in 1..Len(log) :
    /\ log[a].ev = "factory" /\ log[a].at[1] >= 2 /\ log[a].saw = "foo"
    /\ \E b \in RetPos(log[a].at) : log[b].err = Nil

\* C9: ExpectError(step) does not run the wrapped step before it is executed;
\* each execution runs the wrapped step exactly once and succeeds iff the
\* wrapped step failed.
C9_ExpectErrorInverts ==
  /\ \A a \in 1..Len(log) :
       (log[a].ev = "go" /\ Len(log[a].at) >= 2) =>
         \E b \in GoPos(Parent(log[a].at)) :
           /\ b < a
           /\ \A c \in RetPos(Parent(log[a].at)) : c > a
  /\ \A a \in 1..Len(log) :
       (log[a].ev = "ret" /\ log[a].kind = "expectError") =>
         /\ Cardinality(GoPos(log[a].at \o <<1>>)) = 1
         /\ \E b \in RetPos(log[a].at \o <<1>>) :
              /\ b < a
              /\ log[a].err = Nil <=> log[b].err # Nil

\* an ExpectError around a failing step succeeded, and a later ExpectError
\* around a successful step failed the run
C9_Witness ==
  /\ pc = "returned" /\ err = "noerror"
  /\ \E k \in 1..Len(ss) :
       /\ ss[k].kind = "expectError" /\ k \notin Failing /\ Executed(k)
       /\ \E b \in RetPos(<<k, 1>>) : log[b].err # Nil

----------------------------------------------------------------------------
Idle ==
  hc.Request = NoRequest /\ hc.Response = NoResponse /\ hc.ResponseBody = Nil
RequestSet ==
  hc.Request # NoRequest /\ hc.Response = NoResponse /\ hc.ResponseBody = Nil
ResponseReceived ==
  hc.Request # NoRequest /\ hc.Response # NoResponse /\ hc.ResponseBody = Nil
BodyReceived ==
  hc.Request # NoRequest /\ hc.Response # NoResponse /\ hc.ResponseBody # Nil

\* C10: every reachable state of an HttpCall is Idle, RequestSet,
\* ResponseReceived or BodyReceived: a cached body implies a response, a
\* response implies a request, and a response answers a request that existed
\* when it was created.
C10_OneOfFourStates ==
  /\ Idle \/ RequestSet \/ ResponseReceived \/ BodyReceived
  /\ hc.ResponseBody # Nil => hc.Response # NoResponse
  /\ hc.Response # NoResponse => hc.Request # NoRequest
  /\ hc.Response # NoResponse => hc.Response.req # 0

\* the steps whose closure begins with hc.EnsureResponse(), and those whose
\* closure begins with hc.ReceiveBody()
EnsureOps ==
  {"Call", "ResponseStatusEquals", "ResponseHeaderExists",
   "ResponseHeaderNotExists", "ResponseHeaderEquals", "ResponseHeaderContains"}
BodyOps ==
  {"ReceiveBody", "ResponseBodyEquals", "ResponseBodyContains",
   "ResponseBodyMatches", "ResponseBodyJSONSchema",
   "ResponseBodyJSONMatchesStruct"}
\* the errors EnsureResponse itself returns
EnsureErrors == {"no request", "transport"}

\* C11: a NewRequest step that succeeds leaves the call in RequestSet with a
\* new request without headers, no response and no cached body, and the next
\* step that ensures a response performs one call of the client for that
\* request; a NewRequest step whose request construction fails returns the
\* failure and leaves the call Idle.
C11_NewRequestStartsFreshCycle ==
  [][ /\ last'.op = "NewRequest" =>
           /\ doCalls' = doCalls
           /\ IF last'.err = Nil
              THEN /\ RequestSet'
                   /\ hc'.Request.Header = {}
              ELSE /\ last'.err = "bad request"
                   /\ Idle'
      /\ (last.op = "NewRequest" /\ last.err = Nil
            /\ last'.op \in EnsureOps \cup BodyOps) =>
           /\ doCalls' = doCalls + 1
           /\ last'.err # "no request"
           /\ hc'.Response # NoResponse =>
                /\ hc'.Response.req = hc.Request.id
                /\ hc'.Response.Body = Len(streams')
                /\ Len(streams') = Len(streams) + 1
     ]_vars

\* C12: Reset returns nil and leaves the call Idle from every state, so that
\* AssertNoRequest and AssertNoResponse succeed after it, and a Reset that
\* directly follows a Reset changes nothing.
C12_ResetLeavesIdle ==
  [][ last'.op = "Reset" =>
        /\ last'.err = Nil
        /\ Idle'
        /\ AssertNoRequest(St)' = Nil
        /\ AssertNoResponse(St)' = Nil
        /\ last.op = "Reset" =>
             (hc' = hc /\ streams' = streams /\ doCalls' = doCalls)
     ]_vars

\* C13: once a response is present, Call and every response or body
\* assertion step pass the ensure stage without calling the client and
\* without replacing the response; a Call that finds a request and no
\* response calls the client exactly once, so two Calls in a row make one
\* network call.
C13_EnsureResponseIdempotent ==
  [][ /\ (hc.Response # NoResponse /\ last'.op \in EnsureOps \cup BodyOps) =>
           /\ doCalls' = doCalls
           /\ hc'.Response = hc.Response
           /\ Len(streams') = Len(streams)
           /\ last'.err \notin EnsureErrors
           /\ last'.op = "Call" =>
                (last'.err = Nil /\ hc' = hc /\ streams' = streams)
      /\ (hc.Response = NoResponse /\ hc.Request # NoRequest
            /\ last'.op = "Call") =>
           /\ doCalls' = doCalls + 1
           /\ last'.err = Nil <=> hc'.Response # NoResponse
     ]_vars

\* Call was executed when the response and its body were already there, and
\* the client has been called once
C13_Witness ==
  /\ last.op = "Call" /\ last.err = Nil
  /\ BodyReceived
  /\ doCalls = 1

\* C14: in state Idle, Call, ReceiveBody, RequestHeader and every response
\* status, header and body assertion step return the failure of the missing
\* request, do not call the client, and leave the call Idle.
C14_OutOfSequenceInIdleFails ==
  [][ (Idle /\ last'.op \in EnsureOps \cup BodyOps \cup {"RequestHeader"}) =>
        /\ last'.err # Nil
        /\ last'.err =
             (IF last'.op = "RequestHeader" THEN "No Request set" ELSE "no request")
        /\ doCalls' = doCalls
        /\ streams' = streams
        /\ hc' = hc
        /\ Idle'
     ]_vars

\* a body assertion step was run after an exchange had been completed and
\* reset, and failed because there is no request
C14_Witness ==
  /\ Idle
  /\ last.op = "ResponseBodyJSONSchema" /\ last.err = "no request"
  /\ doCalls = 1
  /\ Len(streams) = 1

\* C15: a RequestHeader step succeeds exactly in state RequestSet: it fails
\* when there is no request and when there is a response; when it fails it
\* changes nothing of the call, and when it succeeds it adds the header to
\* the request, makes no network call and leaves the state RequestSet.
C15_RequestHeaderOnlyInRequestSet ==
  [][ last'.op = "RequestHeader" =>
        /\ last'.err = Nil <=> RequestSet
        /\ hc.Request = NoRequest => last'.err = "No Request set"
        /\ (hc.Request # NoRequest /\ hc.Response # NoResponse) =>
             last'.err = "Response already set"
        /\ doCalls' = doCalls
        /\ streams' = streams
        /\ last'.err # Nil => hc' = hc
        /\ last'.err = Nil =>
             /\ RequestSet'
             /\ hc'.Request.id = hc.Request.id
             /\ hc.Request.Header \subseteq hc'.Request.Header
             /\ Cardinality(hc'.Request.Header \ hc.Request.Header) <= 1
             /\ hc'.Request.Header # {}
     ]_vars

\* RequestHeader was refused after the response had arrived, and the
\* request still carries the one header set before the call
C15_Witness ==
  /\ last.op = "RequestHeader" /\ last.err = "Response already set"
  /\ ResponseReceived
  /\ hc.Request.Header = {"Asdf"}

\* the errors of reading a body stream
ReadErrors == {"readerr", "closed"}

\* C16: after ReceiveBody, alone or inside a body assertion step, has
\* succeeded, for every response body, an empty one included, the next
\* ReceiveBody or body assertion step leaves the stream alone and works on
\* the same cached bytes; once bytes are cached no step but Reset and
\* NewRequest changes them or touches a stream.
C16_BodyReadAtMostOnce ==
  [][ /\ (/\ last.op \in BodyOps
          /\ last.err \notin EnsureErrors \cup ReadErrors
          /\ last'.op \in BodyOps) =>
           /\ streams' = streams
           /\ hc'.ResponseBody = hc.ResponseBody
           /\ last'.err \notin EnsureErrors \cup ReadErrors
      /\ (hc.ResponseBody # Nil /\ last'.op \notin {"Reset", "NewRequest"}) =>
           /\ streams' = streams
           /\ hc'.ResponseBody = hc.ResponseBody
     ]_vars

C18_ResetDrainsExactlyUnread ==
  [][ /\ last'.op = "Reset" =>
           LET unread == /\ hc.Response # NoResponse
                         /\ streams[hc.Response.Body].reads = 0
           IN /\ Len(streams') = Len(streams)
              /\ unread =>
                   LET b == hc.Response.Body
                   IN /\ streams'[b].closed
                      /\ streams'[b].reads = 1 /\ streams'[b].closes = 1
                      /\ \A i \in 1..Len(streams) :
                           i # b => streams'[i] = streams[i]
              /\ ~unread => streams' = streams
              /\ \A i \in 1..Len(streams') : streams'[i].closed
      /\ \A i \in 1..Len(streams) :
           streams[i].closed => streams'[i] = streams[i]
     ]_vars

\* after Reset every stream the client handed out is closed
ResetClosesAll ==
  last.op \in {"Reset", "NewRequest"} =>
    \A i \in 1..Len(streams) : streams[i].closed

\* C19: when an operation returns, every response body that has been opened
\* (by Call, by a status, header or body assertion step that ensured the
\* response, or by ReceiveBody) is closed or has been drained, whatever the
\* operation returned.
C19_OpenedBodyClosedOnReturn ==
  \A i \in 1..Len(streams) : streams[i].closed \/ streams[i].reads >= 1

\* C19 as amended: a body opened by Call or by a status or header assertion
\* step is still open and unread when that step returns; the only body that
\* is ever open is the unread body of the current response; ReceiveBody and
\* the body assertion steps leave no body open once they are past
\* EnsureResponse, and Reset and NewRequest leave no body open at all,
\* whether they return success or failure.
C19_OpenBodyIsCurrentUntilReadOrReset ==
  [][ /\ \A i \in 1..Len(streams') :
           ~streams'[i].closed =>
             /\ hc'.Response # NoResponse
             /\ hc'.Response.Body = i
             /\ streams'[i].reads = 0
             /\ hc'.ResponseBody = Nil
      /\ (last'.op \in EnsureOps /\ Len(streams') > Len(streams)) =>
           /\ Len(streams') = Len(streams) + 1
           /\ hc'.Response.Body = Len(streams')
           /\ streams'[Len(streams')] = NewStream(streams'[Len(streams')].kind)
      /\ (last'.op \in BodyOps /\ last'.err \notin EnsureErrors) =>
           \A i \in 1..Len(streams') : streams'[i].closed
      /\ ResetClosesAll'
     ]_vars

\* a status assertion step opened the body of a second exchange and failed
\* on the comparison: that body is open, the body of the first exchange was
\* closed on the way
C19_Witness ==
  /\ last.op = "ResponseStatusEquals" /\ last.err = "status"
  /\ Len(streams) = 2
  /\ streams[1].closed
  /\ ~streams[2].closed /\ hc.Response.Body = 2

\* C20: whenever a capability called while a step or operation ran (the
\* client's Do, http.NewRequest, reading or draining the body stream, the
\* validator) reported a failure, the step or operation returned a failure
\* to its caller.
C20_NoSwallowedFailure ==
  last.cap # Nil => last.err # Nil

\* C21: AnyError returns the argument with the lowest index that is not nil,
\* and returns nil iff the list is empty or every argument is nil.
C21_AnyErrorFirstNonNil ==
  anyErr # "none" =>
    LET set == {i \in 1..Len(args) : args[i] # Nil}
    IN /\ anyErr = Nil <=> set = {}
       /\ \A i \in set :
            (\A j \in set : i <= j) => anyErr = args[i]

\* a call with a nil first, then two different errors
C21_Witness ==
  /\ Len(args) = 3
  /\ args[1] = Nil /\ args[2] = "e2" /\ args[3] = "e1"
  /\ anyErr = "e2"

\* C22: ResponseHeaderExists(key) succeeds whenever the server set a header
\* under a name that equals key up to letter case, and
\* ResponseHeaderNotExists(key) succeeds whenever the server set no header
\* of that name.
C22_HeaderExistsIgnoresCase ==
  /\ (/\ last.op = "ResponseHeaderExists"
      /\ last.err \notin EnsureErrors
      /\ CanonicalHeaderKey(last.key) \in hc.Response.Header) =>
       last.err = Nil
  /\ (/\ last.op = "ResponseHeaderNotExists"
      /\ last.err \notin EnsureErrors
      /\ CanonicalHeaderKey(last.key) \notin hc.Response.Header) =>
       last.err = Nil

\* C26: when Client.Do fails in state RequestSet, Call, ReceiveBody and every
\* assertion step return the transport failure, store no response and no
\* stream, and leave the call in RequestSet with the same request; the next
\* step that ensures a response calls the client again.
C26_TransportFailureKeepsRequestSet ==
  [][ /\ (/\ RequestSet
          /\ last'.op \in EnsureOps \cup BodyOps
          /\ last'.cap = "transport") =>
           /\ last'.err = "transport"
           /\ doCalls' = doCalls + 1
           /\ hc' = hc
           /\ streams' = streams
           /\ RequestSet'
      /\ (/\ last.op \in EnsureOps \cup BodyOps
          /\ last.err = "transport"
          /\ last'.op \in EnsureOps \cup BodyOps) =>
           /\ doCalls' = doCalls + 1
           /\ last'.err # "no request"
     ]_vars

\* the client failed twice in a row on the same request: each of the two
\* steps called it, no response was stored
C26_Witness ==
  /\ last.op = "ResponseBodyEquals" /\ last.err = "transport"
  /\ RequestSet
  /\ doCalls = 2
  /\ streams = <<>>

\* the received steps whose Go() returned an error
ChanFailing ==
  {k \in 1..Len(results) : \E a \in RetPos(<<k>>) : log[a].err # Nil}
\* the Test call is over or on its way out
Leaving == pc \in {"defer", "returned", "fatal"}
\* the number of steps received from the channel so far
Received == Len(ch.sent) - Len(ch.buf)

\* the steps received so far were sent in this order, and each was executed
\* once, to completion, after its predecessors had succeeded; a failing
\* step is the last one received and its error is the error of the run
ChanOrderly ==
  /\ results = SubSeq(ch.sent, 1, Len(results))
  /\ Received = Len(results)
  /\ \A k \in 1..Len(results) :
       /\ Cardinality(GoPos(<<k>>)) <= 1
       /\ \A a \in GoPos(<<k>>) : \A j \in 1..(k - 1) :
            \E b \in RetPos(<<j>>) : b < a /\ log[b].err = Nil
       /\ k < Len(results) => RetPos(<<k>>) # {}
  /\ pc = "step" => GoPos(<<Len(results)>>) = {}
  /\ pc \in {"loop", "defer", "returned", "fatal"} =>
       \A k \in 1..Len(results) : RetPos(<<k>>) # {}
  /\ \A i \in ChanFailing :
       /\ i = Len(results)
       /\ Leaving
       /\ err = ErrorOf(i)
  /\ (Leaving /\ err # Nil) => ChanFailing # {}

\* C23: StepsChan.Test executes the steps in the order they were sent on the
\* channel, each once and to completion before the next is received; the
\* result list is exactly the received steps in order and on failure ends
\* with the failing step; after the first failure nothing more is received
\* or executed.
C23_ChanStepsInOrderStopAtFailure ==
  /\ ChanOrderly
  /\ [][ /\ ChanOrderly'
         /\ Leaving =>
              /\ results' = results
              /\ Received' = Received
              /\ \A a \in 1..Len(log') : log'[a].ev = "go" => a <= Len(log)
        ]_vars

\* the second step received failed while another step was waiting in the
\* channel; Test returned the two steps and left the third where it was
C23_Witness ==
  /\ pc = "returned" /\ err = "e1"
  /\ Len(results) = 2 /\ ChanFailing = {2}
  /\ ch.buf # <<>>

\* Test is inside step.Go() of a step that sends its successor, and the send
\* cannot proceed: the channel is unbuffered or its buffer is full
SendBlocked == pc = "step" /\ Current.kind = "send" /\ ~Room

ProducerBlocked == prod.todo # <<>> /\ ~Room

\* C25: StepsChan.Test comes to an end only with the error of a received
\* step that failed, or without error when the channel is closed and
\* drained and every received step succeeded; it does come to an end once
\* a step has failed and once the channel is closed; while no step has
\* failed and the channel is open it does not return; and after it has
\* ended nothing is received any more, so that a feeding goroutine blocked
\* in its send stays blocked.
C25_ReturnsIffFailureOrClosed ==
  /\ [](Finished =>
         \/ err # Nil /\ ChanFailing = {Len(results)}
         \/ err = Nil /\ ChanFailing = {} /\ ch.closed /\ ch.buf = <<>>)
  /\ []((ChanFailing = {} /\ ~ch.closed) => ~Leaving)
  /\ (ChanFailing # {}) ~> Finished
  /\ (ch.closed /\ ChanFailing = {}) ~> Finished
  /\ [][ Leaving =>
           /\ Leaving'
           /\ Received' = Received
           /\ results' = results
           /\ ProducerBlocked => (ProducerBlocked' /\ prod' = prod)
        ]_vars

\* Test returned the error of the first step it received from an unbuffered
\* channel while the feeding goroutine waits to send the next step
C25_Witness ==
  /\ pc = "returned" /\ err = "e1"
  /\ Len(results) = 1
  /\ ch.capacity = 0
  /\ ProducerBlocked
====
